---- MODULE Spec2Model ----
(***************************************************************************)
(* Model of the job handlers of src/controllers/job-controller.js:         *)
(* getAllJobs, postJob, getMyJobs, updateJob, deleteJob and getSingleJob   *)
(* acting on the Job collection.                                           *)
(*                                                                         *)
(* A JavaScript value that may be undefined is a sequence: <<>> is         *)
(* undefined (or null), <<v>> is the value v.  A document of the           *)
(* collection is a record; the collection is a set of documents.           *)
(***************************************************************************)
EXTENDS Integers, Sequences, FiniteSets, TLC

\* The number of ObjectIds the storage layer hands out in one behaviour.
MaxJobs == 2

VARIABLES
  jobs,      \* the Job collection: a set of documents
  nextId,    \* the next ObjectId the storage layer generates
  req,       \* the request handled by the last step
  res,       \* the response the last step produced
  calls,     \* the storage operations the last step issued, in order
  creator,   \* history: for each ObjectId handed out, the user whose create made it
  clients    \* the create requests in flight (concurrent specification)

vars == <<jobs, nextId, req, res, calls, creator, clients>>

None == <<>>
Some(v) == <<v>>

------------------------------------------------------------------------------
(* Users, identifiers and payloads the requests are drawn from.             *)

Employer1 == [_id |-> "u1", role |-> "Employer"]
Employer2 == [_id |-> "u2", role |-> "Employer"]
Seeker == [_id |-> "u3", role |-> "Job Seeker"]
Users == {Employer1, Employer2, Seeker}

\* An ObjectId that casts: the n-th identifier generated.
ObjectId(n) == [wellFormed |-> TRUE, n |-> n]
\* A string that does not cast to an ObjectId.
MalformedId == [wellFormed |-> FALSE, n |-> 0]
RequestIds == {ObjectId(n) : n \in 1..MaxJobs} \cup {MalformedId}

TextFields == {"title", "description", "category", "country", "city", "location"}
SalaryFields == {"fixedSalary", "salaryFrom", "salaryTo"}

FullBody(fixed, from, to) ==
  [title |-> Some("Dev"), description |-> Some("Build X"),
   category |-> Some("Eng"), country |-> Some("US"), city |-> Some("NY"),
   location |-> Some("Office"),
   fixedSalary |-> fixed, salaryFrom |-> from, salaryTo |-> to]

\* Every combination of present and absent salary fields, with full details.
SalaryBodies ==
  {FullBody(fixed, from, to) :
     fixed \in {None, Some(5000)}, from \in {None, Some(1000)},
     to \in {None, Some(2000)}}

\* A salary of 0 is a present but falsy value.
ZeroSalaryBodies ==
  {FullBody(Some(0), None, None), FullBody(Some(5000), Some(0), Some(2000))}

\* One detail field missing or empty, the salary well-formed.
MissingDetailBodies ==
  {[FullBody(Some(5000), None, None) EXCEPT ![f] = v] :
     f \in TextFields, v \in {None, Some("")}}

CreateBodies == SalaryBodies \cup ZeroSalaryBodies \cup MissingDetailBodies

\* Partial updates: each names the fields it sets.
UpdateBodies ==
  {[expired |-> TRUE],
   [expired |-> FALSE],
   [salaryFrom |-> Some(1000)],
   [fixedSalary |-> None, salaryFrom |-> Some(1000), salaryTo |-> Some(2000)],
   [fixedSalary |-> Some(5000), salaryFrom |-> None, salaryTo |-> None],
   [title |-> Some("")],
   [postedBy |-> "u2"]}

------------------------------------------------------------------------------
(* JavaScript truthiness of the destructured body fields.                   *)

TextTruthy(v) == v \notin {None, Some("")}
NumTruthy(v) == v \notin {None, Some(0)}

------------------------------------------------------------------------------
(* Responses.                                                               *)

\* next(new ErrorHandler(message, statusCode)); statusCode may be omitted.
ErrorHandler(message, statusCode) ==
  [status |-> statusCode, success |-> FALSE, message |-> message, data |-> {}]

\* res.status(200).json({success: true, message, <documents>})
Json(message, docs) ==
  [status |-> Some(200), success |-> TRUE, message |-> message, data |-> docs]

\* An error thrown inside updateJob or deleteJob (a cast error of findById, a
\* validation error of findByIdAndUpdate), which catchAsyncError hands to the
\* error middleware: update and delete answer 200 or 400 only.
ThrownError(name) ==
  [status |-> Some(400), success |-> FALSE, message |-> name, data |-> {}]

Request(op, user, id, body) == [op |-> op, user |-> user, id |-> id, body |-> body]

NoRequest == Request("none", [_id |-> "", role |-> ""], None, None)
NoResponse == [status |-> None, success |-> FALSE, message |-> "", data |-> {}]

------------------------------------------------------------------------------
(* Storage operations on the Job collection.                                *)

\* Faulty variant of FindActive: the filter on expired is left out.
FindAll(coll) == coll

\* Job.find({ expired: false })
FindActive(coll) == {j \in coll : j.expired = FALSE}

\* Job.find({ postedBy: req.user._id })
FindPostedBy(coll, userId) == {j \in coll : j.postedBy = userId}

\* Faulty variant of FindOne: an undefined field of the filter matches no
\* document.
FindOneUndefinedNeverMatches(coll, body) ==
  {j \in coll : \A f \in TextFields \cup SalaryFields :
                   body[f] # None /\ j[f] = body[f]}

\* Job.findOne({title, ..., salaryTo}): an undefined field of the filter is
\* sent as null, which matches a document where the field is absent.
FindOne(coll, body) ==
  {j \in coll : \A f \in TextFields \cup SalaryFields : j[f] = body[f]}

\* Faulty variant of FindById: the id is not part of the filter.
FindByIdAny(coll, id) == IF coll = {} THEN {} ELSE {CHOOSE j \in coll : TRUE}

\* Job.findById(id), for an id that casts to an ObjectId.
FindById(coll, id) == {j \in coll : j._id = id}

\* The default of the expired flag of a document created without it.
DefaultExpired == FALSE

\* The document Job.create({title, ..., salaryTo, postedBy}) stores.
NewPost(id, body, postedBy) ==
  [_id |-> id, title |-> body.title, description |-> body.description,
   category |-> body.category, country |-> body.country, city |-> body.city,
   location |-> body.location, fixedSalary |-> body.fixedSalary,
   salaryFrom |-> body.salaryFrom, salaryTo |-> body.salaryTo,
   postedBy |-> postedBy, expired |-> DefaultExpired]

\* Faulty variant of Create for the concurrency property: an insert that
\* looks at the stored documents again, as a unique index would.
CreateUnlessStored(coll, post) ==
  IF FindOne(coll, post) # {} THEN coll ELSE coll \cup {post}

\* Job.create inserts without looking at the documents already stored.
Create(coll, post) == coll \cup {post}

\* The document findByIdAndUpdate(id, req.body, {new: true}) returns: the
\* fields of the body replace those of the stored document.
ApplyUpdate(post, body) ==
  [f \in DOMAIN post |-> IF f \in DOMAIN body THEN body[f] ELSE post[f]]

\* Exactly one salary representation: fixedSalary alone, or both salaryFrom
\* and salaryTo without fixedSalary.
OneSalaryForm(j) ==
  \/ j.fixedSalary # None /\ j.salaryFrom = None /\ j.salaryTo = None
  \/ j.fixedSalary = None /\ j.salaryFrom # None /\ j.salaryTo # None

\* runValidators: true, validating the merged document against the Job
\* invariants.
ValidateJob(j) ==
  /\ \A f \in TextFields : TextTruthy(j[f])
  /\ OneSalaryForm(j)

------------------------------------------------------------------------------
(* The handlers, one request at a time.                                     *)

\* The requests that may be in flight together.
Clients == {"c1", "c2"}

Init ==
  /\ jobs = {}
  /\ nextId = 1
  /\ req = NoRequest
  /\ res = NoResponse
  /\ calls = <<>>
  /\ creator = {}
  /\ clients = [p \in Clients |-> [pc |-> "idle", user |-> None, body |-> None, res |-> None]]

\* Each operation is one request/response cycle: a handler starts when no
\* request is being answered, and Finish ends the cycle, dropping the request
\* and its response.
Idle == req = NoRequest

Finish ==
  /\ ~Idle
  /\ req' = NoRequest
  /\ res' = NoResponse
  /\ calls' = <<>>
  /\ UNCHANGED <<jobs, nextId, creator, clients>>

\* getAllJobs: the documents that are not expired.
GetAllJobs ==
  /\ Idle
  /\ req' = Request("getAllJobs", NoRequest.user, None, None)
  /\ res' = Json("", FindActive(jobs))
  /\ calls' = <<"find">>
  /\ UNCHANGED <<jobs, nextId, creator, clients>>

\* postJob up to the existence check: the role, the details and the salary
\* fields.  None when the request passes, else the error it is answered with.
PostJobRejects(user, body) ==
  IF user.role = "Job Seeker"
    THEN Some(ErrorHandler("Job Seeker not allowed to access this resource.", Some(400)))
  ELSE IF \E f \in TextFields : ~TextTruthy(body[f])
    THEN Some(ErrorHandler("Please provide full job details.", Some(400)))
  ELSE IF (~NumTruthy(body.salaryFrom) \/ ~NumTruthy(body.salaryTo))
          /\ ~NumTruthy(body.fixedSalary)
    THEN Some(ErrorHandler("Please either provide fixed salary or ranged salary.", Some(400)))
  ELSE IF NumTruthy(body.salaryFrom) /\ NumTruthy(body.salaryTo)
          /\ NumTruthy(body.fixedSalary)
    THEN Some(ErrorHandler("Cannot Enter Fixed and Ranged Salary together.", Some(400)))
  ELSE None

\* postJob, the whole handler.
PostJob(user, body) ==
  /\ Idle
  /\ req' = Request("postJob", user, None, Some(body))
  /\ UNCHANGED clients
  /\ IF PostJobRejects(user, body) # None
       THEN /\ res' = PostJobRejects(user, body)[1]
            /\ calls' = <<>>
            /\ UNCHANGED <<jobs, nextId, creator>>
     ELSE IF FindOne(jobs, body) # {}
       THEN /\ res' = ErrorHandler("Job already exist!", None)
            /\ calls' = <<"findOne">>
            /\ UNCHANGED <<jobs, nextId, creator>>
     ELSE /\ nextId <= MaxJobs
          /\ LET post == NewPost(ObjectId(nextId), body, user._id) IN
               /\ jobs' = Create(jobs, post)
               /\ res' = Json("Job posted successfully!", {post})
          /\ nextId' = nextId + 1
          /\ creator' = creator \cup {<<ObjectId(nextId), user._id>>}
          /\ calls' = <<"findOne", "create">>

\* Faulty variant of GetMyJobsAllowed: the role is not looked at.
GetMyJobsRoleAllowed(role) == TRUE

\* The role check of getMyJobs.
GetMyJobsAllowed(role) == role # "Job Seeker"

\* getMyJobs: the documents the caller posted.
GetMyJobs(user) ==
  /\ Idle
  /\ req' = Request("getMyJobs", user, None, None)
  /\ UNCHANGED <<jobs, nextId, creator, clients>>
  /\ IF ~GetMyJobsAllowed(user.role)
       THEN /\ res' = ErrorHandler("Job Seeker not allowed to access this resource.", Some(400))
            /\ calls' = <<>>
     ELSE /\ res' = Json("", FindPostedBy(jobs, user._id))
          /\ calls' = <<"find">>

\* updateJob: a partial update of the document with the given id.
UpdateJob(user, id, body) ==
  /\ Idle
  /\ req' = Request("updateJob", user, Some(id), Some(body))
  /\ UNCHANGED <<nextId, creator, clients>>
  /\ IF user.role = "Job Seeker"
       THEN /\ res' = ErrorHandler("Opps Job not found!.", Some(400))
            /\ calls' = <<>>
            /\ UNCHANGED jobs
     ELSE IF ~id.wellFormed
       THEN /\ res' = ThrownError("CastError")
            /\ calls' = <<"findById">>
            /\ UNCHANGED jobs
     ELSE IF FindById(jobs, id) = {}
       THEN /\ res' = ErrorHandler("Job Seeker not allowed to access this resource.", Some(400))
            /\ calls' = <<"findById">>
            /\ UNCHANGED jobs
     ELSE LET post == CHOOSE j \in FindById(jobs, id) : TRUE
              updated == ApplyUpdate(post, body)
          IN  /\ calls' = <<"findById", "findByIdAndUpdate">>
              /\ IF ValidateJob(updated)
                   THEN /\ jobs' = (jobs \ {post}) \cup {updated}
                        /\ res' = Json("Job updated successfully!", {updated})
                   ELSE /\ res' = ThrownError("ValidationError")
                        /\ UNCHANGED jobs

\* Faulty variant of DeleteOne: a delete without a filter.
DeleteOneAndRest(coll, post) == {}

\* post.deleteOne()
DeleteOne(coll, post) == coll \ {post}

\* deleteJob: removes the document with the given id.

DeleteJob(user, id) ==
  /\ Idle
  /\ req' = Request("deleteJob", user, Some(id), None)
  /\ UNCHANGED <<nextId, creator, clients>>
  /\ IF user.role = "Job Seeker"
       THEN /\ res' = ErrorHandler("Job Seeker not allowed to access this resource.", Some(400))
            /\ calls' = <<>>
            /\ UNCHANGED jobs
     ELSE IF ~id.wellFormed
       THEN /\ res' = ThrownError("CastError")
            /\ calls' = <<"findById">>
            /\ UNCHANGED jobs
     ELSE IF FindById(jobs, id) = {}
       THEN /\ res' = ErrorHandler("Opps Job not found!.", Some(400))
            /\ calls' = <<"findById">>
            /\ UNCHANGED jobs
     ELSE LET post == CHOOSE j \in FindById(jobs, id) : TRUE
          IN  /\ jobs' = DeleteOne(jobs, post)
              /\ res' = Json("Job deleted successfully!", {})
              /\ calls' = <<"findById", "deleteOne">>

\* getSingleJob: the document with the given id; a cast error is caught.
GetSingleJob(user, id) ==
  /\ Idle
  /\ req' = Request("getSingleJob", user, Some(id), None)
  /\ calls' = <<"findById">>
  /\ UNCHANGED <<jobs, nextId, creator, clients>>
  /\ IF ~id.wellFormed
       THEN res' = ErrorHandler("Invalid ID / CastError!", Some(404))
     ELSE IF FindById(jobs, id) = {}
       THEN res' = ErrorHandler("Job not found!", Some(404))
     ELSE res' = Json("", FindById(jobs, id))

Next ==
  \/ GetAllJobs
  \/ \E user \in Users, body \in CreateBodies : PostJob(user, body)
  \/ \E user \in Users : GetMyJobs(user)
  \/ \E user \in Users, id \in RequestIds, body \in UpdateBodies : UpdateJob(user, id, body)
  \/ \E user \in Users, id \in RequestIds : DeleteJob(user, id)
  \/ \E user \in Users, id \in RequestIds : GetSingleJob(user, id)
  \/ Finish

Spec == Init /\ [][Next]_vars

------------------------------------------------------------------------------
(* Concurrent creates: postJob awaits the existence check, then awaits the  *)
(* insert, and another request may run between the two.                     *)

RaceBodies ==
  {FullBody(Some(5000), None, None), FullBody(None, Some(1000), Some(2000)),
   FullBody(None, None, None)}

Done(user, body, response) ==
  [pc |-> "done", user |-> Some(user), body |-> Some(body), res |-> Some(response)]

\* postJob from its start to the end of the awaited findOne.
PostJobCheck(p, user, body) ==
  /\ clients[p].pc = "idle"
  /\ UNCHANGED <<jobs, nextId, req, res, calls, creator>>
  /\ IF PostJobRejects(user, body) # None
       THEN clients' = [clients EXCEPT ![p] = Done(user, body, PostJobRejects(user, body)[1])]
     ELSE IF FindOne(jobs, body) # {}
       THEN clients' = [clients EXCEPT ![p] =
                          Done(user, body, ErrorHandler("Job already exist!", None))]
     ELSE clients' = [clients EXCEPT ![p] =
                        [pc |-> "checked", user |-> Some(user), body |-> Some(body),
                         res |-> None]]

\* postJob from the awaited Job.create to its response.
PostJobCreate(p) ==
  /\ clients[p].pc = "checked"
  /\ nextId <= MaxJobs
  /\ LET user == clients[p].user[1]
         body == clients[p].body[1]
         post == NewPost(ObjectId(nextId), body, user._id)
     IN  /\ jobs' = Create(jobs, post)
         /\ clients' = [clients EXCEPT ![p] =
                          Done(user, body, Json("Job posted successfully!", {post}))]
         /\ creator' = creator \cup {<<ObjectId(nextId), user._id>>}
  /\ nextId' = nextId + 1
  /\ UNCHANGED <<req, res, calls>>

\* The response is sent and the client may send its next request.
PostJobFinish(p) ==
  /\ clients[p].pc = "done"
  /\ clients' = [clients EXCEPT ![p] =
                   [pc |-> "idle", user |-> None, body |-> None, res |-> None]]
  /\ UNCHANGED <<jobs, nextId, req, res, calls, creator>>

NextRace ==
  \/ \E p \in Clients, user \in Users, body \in RaceBodies : PostJobCheck(p, user, body)
  \/ \E p \in Clients : PostJobCreate(p)
  \/ \E p \in Clients : PostJobFinish(p)

SpecRace == Init /\ [][NextRace]_vars

------------------------------------------------------------------------------
(* Properties.  In a step of Spec that handles a request, req' is the       *)
(* request, res' its response, jobs the collection before it and jobs' the  *)
(* collection after it.                                                     *)

JobFields == TextFields \cup SalaryFields

\* The document and the body carry the same nine job fields.
SameTuple(j, body) == \A f \in JobFields : j[f] = body[f]

Stored(coll, id) == {j \in coll : j._id = id}

ManagedOps == {"postJob", "getMyJobs", "updateJob", "deleteJob"}

\* C1: every stored Job has exactly one salary representation: fixedSalary
\* without salaryFrom and salaryTo, or salaryFrom and salaryTo without
\* fixedSalary.
C1_ExactlyOneSalaryForm ==
  \A j \in jobs :
    \/ j.fixedSalary # None /\ j.salaryFrom = None /\ j.salaryTo = None
    \/ j.fixedSalary = None /\ j.salaryFrom # None /\ j.salaryTo # None

\* C2: a request that changes or removes a stored Job comes from the user
\* its postedBy names; a request from any other user leaves the Job as it is.
C2_OnlyOwnerMutates ==
  [][\A j \in jobs : j \notin jobs' => req'.user._id = j.postedBy]_vars

\* C3: create, my-jobs, update and delete by a Job Seeker are answered 400
\* with no listing, issue no storage operation and leave the collection
\* unchanged, whatever the payload and the id.
C3_JobSeekerRejected ==
  [][(req'.op \in ManagedOps /\ req'.user.role = "Job Seeker")
       => /\ res'.status = Some(400)
          /\ res'.success = FALSE
          /\ res'.data = {}
          /\ calls' = <<>>
          /\ jobs' = jobs]_vars

C3_Witness ==
  /\ req.op = "deleteJob"
  /\ req.user.role = "Job Seeker"
  /\ Stored(jobs, req.id[1]) # {}
  /\ res.status = Some(400)

\* The claim's words for a create payload: a detail is missing or empty; the
\* salary is fully fixed (fixedSalary given), fully ranged (salaryFrom and
\* salaryTo given).
DetailMissing(body) == \E f \in TextFields : body[f] \in {None, Some("")}
FullyFixed(body) == body.fixedSalary # None
FullyRanged(body) == body.salaryFrom # None /\ body.salaryTo # None

\* C4: a create by a caller who is not a Job Seeker, with a detail missing
\* or empty, or with a salary that is neither fully fixed nor fully ranged,
\* or is both, is answered 400, performs no lookup and no insert and leaves
\* the collection unchanged.
C4_BadPayloadRejected ==
  [][(/\ req'.op = "postJob"
      /\ req'.user.role # "Job Seeker"
      /\ \/ DetailMissing(req'.body[1])
         \/ ~FullyFixed(req'.body[1]) /\ ~FullyRanged(req'.body[1])
         \/ FullyFixed(req'.body[1]) /\ FullyRanged(req'.body[1]))
       => /\ res'.status = Some(400)
          /\ calls' = <<>>
          /\ jobs' = jobs]_vars

C6_CheckedCreateInserts ==
  [][\A p \in Clients :
       (clients[p].pc = "checked" /\ clients'[p].pc = "done")
         => /\ Cardinality(jobs') = Cardinality(jobs) + 1
            /\ clients'[p].res[1].status = Some(200)
            /\ \E j \in jobs' \ jobs : SameTuple(j, clients[p].body[1])]_vars

C6_Witness ==
  /\ \A p \in Clients : /\ clients[p].pc = "done"
                        /\ clients[p].res[1].status = Some(200)
  /\ clients["c1"].body = clients["c2"].body
  /\ \E a, b \in jobs : /\ a._id # b._id
                        /\ SameTuple(a, b)
                        /\ SameTuple(a, clients["c1"].body[1])

\* C7: the list of active jobs holds the stored Jobs that are not expired,
\* all of them and no other.
C7_ListIsActiveJobs ==
  req.op = "getAllJobs"
    => /\ res.status = Some(200)
       /\ \A j \in res.data : j \in jobs /\ j.expired = FALSE
       /\ \A j \in jobs : j.expired = FALSE => j \in res.data

\* A listing while one Job is expired (by an update) and another is not.
C7_Witness ==
  /\ req.op = "getAllJobs"
  /\ \E j \in jobs : j.expired = TRUE
  /\ \E j \in jobs : j.expired = FALSE
  /\ res.data # {}

\* C8: get-single-job answers 404 "Invalid ID" for a malformed id, 404 "Job
\* not found" for a well-formed id with no stored Job, 200 with the record
\* otherwise, and never changes the collection.
C8_GetSingleJob ==
  [][req'.op = "getSingleJob"
       => /\ jobs' = jobs
          /\ IF ~req'.id[1].wellFormed
               THEN /\ res'.status = Some(404)
                    /\ res'.message = "Invalid ID / CastError!"
             ELSE IF \A j \in jobs : j._id # req'.id[1]
               THEN /\ res'.status = Some(404)
                    /\ res'.message = "Job not found!"
             ELSE /\ res'.status = Some(200)
                  /\ res'.data = {j \in jobs : j._id = req'.id[1]}
                  /\ Cardinality(res'.data) = 1]_vars

\* A lookup of the id of a Job that was deleted earlier.
C8_Witness ==
  /\ req.op = "getSingleJob"
  /\ req.id[1].wellFormed
  /\ req.id[1].n < nextId
  /\ Stored(jobs, req.id[1]) = {}
  /\ jobs # {}
  /\ res.status = Some(404)
  /\ res.message = "Job not found!"

\* C9: a created record has postedBy = the caller, and my-jobs of a user who
\* is not a Job Seeker returns the stored Jobs whose postedBy is that user,
\* which are the stored Jobs that user created.
C9_MyJobsAreTheJobsCreated ==
  /\ (req.op = "postJob" /\ res.status = Some(200))
       => \A j \in res.data : j.postedBy = req.user._id /\ j \in jobs
  /\ (req.op = "getMyJobs" /\ req.user.role # "Job Seeker")
       => /\ res.data = {j \in jobs : j.postedBy = req.user._id}
          /\ res.data = {j \in jobs : <<j._id, req.user._id>> \in creator}

\* C10: for a caller who is not a Job Seeker, an update or delete of an id
\* with no stored Job is answered 400 and changes nothing; a delete of a
\* stored id removes that Job alone; the id of a removed Job is never stored
\* again, so a second delete of it is answered 400.
C10_UpdateDeleteFrame ==
  [][/\ (req'.op \in {"updateJob", "deleteJob"} /\ req'.user.role # "Job Seeker")
          => /\ Stored(jobs, req'.id[1]) = {}
                  => res'.status = Some(400) /\ jobs' = jobs
             /\ (req'.op = "deleteJob" /\ Stored(jobs, req'.id[1]) # {})
                  => /\ Cardinality(Stored(jobs, req'.id[1])) = 1
                     /\ jobs' = jobs \ Stored(jobs, req'.id[1])
                     /\ res'.status = Some(200)
     /\ \A n \in 1..(nextId - 1) :
          Stored(jobs, ObjectId(n)) = {} => Stored(jobs', ObjectId(n)) = {}]_vars

\* A second delete of an id, with another Job still stored.
C10_Witness ==
  /\ req.op = "deleteJob"
  /\ req.user.role # "Job Seeker"
  /\ req.id[1].wellFormed
  /\ req.id[1].n < nextId
  /\ Stored(jobs, req.id[1]) = {}
  /\ jobs # {}
  /\ res.status = Some(400)

====
